---- MODULE Spec2Model ----
(***************************************************************************)
(* Model of the document validation page (DocumentValidator, validation.js) *)
(* A version string is a sequence of one-character strings; a JavaScript   *)
(* number is a record [nan, v]; an object reference into this.documents is *)
(* the 1-based position of the object in the array, and 0 is null.         *)
(***************************************************************************)
EXTENDS Integers, Sequences, FiniteSets

VARIABLES
    documents,        \* this.documents
    validationId,     \* this.validationId
    currentDocument,  \* this.currentDocument (reference, 0 = null)
    pc,               \* position of init() / of the driver of the calls
    display,          \* what the page shows: [status, title, latest]
    thrown,           \* the error caught by init(), "none" if none
    urlId,            \* environment: the id parameter of window.location.search
    response,         \* environment: what fetching documents.json gives, [kind, body]
    engine,           \* environment: the engine's choice where sort order is implementation-defined
    call,             \* the last call made on the validator: [name, arg, result],
                      \* with the methods it invoked for validateDocument
    version1,         \* first argument handed to compareVersions
    version2,         \* second argument handed to compareVersions
    validationTypes,  \* ValidationIndex: this.validationTypes
    indexPc,          \* position of ValidationIndex.init()
    manifest,         \* environment: what fetching validation-types.json gives
    probe,            \* environment: what the HEAD request of each known type gives
    typeIndex,        \* discoverValidationTypes: position in knownTypes
    discoveredTypes,  \* discoverValidationTypes: discoveredTypes
    discovery,        \* where discoverValidationTypes was called from, "none" if not called
    indexError,       \* the message of the error in flight or caught, "none" if none
    indexPage         \* what the index page shows

indexVars == <<validationTypes, indexPc, manifest, probe, typeIndex, discoveredTypes,
               discovery, indexError, indexPage>>

vars == <<documents, validationId, currentDocument, pc, display, thrown,
          urlId, response, engine, call, version1, version2, indexVars>>

\* the index page is not open: the documents page and the index page are
\* two pages, each with its own script
IndexNotOpen ==
    /\ validationTypes = <<>>
    /\ indexPc = "closed"
    /\ manifest = [kind |-> "none"]
    /\ probe = <<>>
    /\ typeIndex = 0
    /\ discoveredTypes = <<>>
    /\ discovery = "none"
    /\ indexError = "none"
    /\ indexPage = "closed"

----------------------------------------------------------------------------
(* Bounds *)

MaxSegs == 2
MaxDocs == 3
MaxZeroSegs == 2
MaxThirdSegs == 1
MaxTypes == 2

----------------------------------------------------------------------------
(* JavaScript values *)

Null == "<null>"

NaN == [nan |-> TRUE, v |-> 0]
Num(n) == [nan |-> FALSE, v |-> n]

\* x || 0 for a number-or-undefined x: NaN, 0 and undefined give 0
OrZero(x) == IF x.nan THEN 0 ELSE x.v

Sign(n) == IF n < 0 THEN -1 ELSE IF n > 0 THEN 1 ELSE 0

Max(a, b) == IF a >= b THEN a ELSE b

\* Body(value), the value being computed once: const x = value; ... x ... x ...
Once(value, Body(_)) == CHOOSE r \in {Body(x) : x \in {value}} : TRUE

----------------------------------------------------------------------------
(* Version strings *)

Digits == {"0", "1", "2"}
Alphabet == Digits \cup {".", "a"}

DigitValue(c) == CASE c = "0" -> 0 [] c = "1" -> 1 [] c = "2" -> 2

\* the segments the version strings handed to compareVersions are made of:
\* "", "0", "2", "10", "a", "2a"
SegmentPool == { <<>>, <<"0">>, <<"2">>, <<"1", "0">>, <<"a">>, <<"2", "a">> }

\* Array.prototype.join('.')
RECURSIVE Join(_)
Join(segs) ==
    IF Len(segs) = 1 THEN segs[1]
    ELSE segs[1] \o <<".">> \o Join(Tail(segs))

\* the version strings of at most MaxSegs segments; "" is the one empty segment
VersionStrings ==
    {Join(segs) : segs \in UNION {[1..n -> SegmentPool] : n \in 1..MaxSegs}}

\* String.prototype.split('.'): the segments between the dots, empty ones kept
RECURSIVE SplitFrom(_, _, _)
SplitFrom(s, i, cur) ==
    IF i > Len(s) THEN <<cur>>
    ELSE IF s[i] = "." THEN <<cur>> \o SplitFrom(s, i + 1, <<>>)
    ELSE SplitFrom(s, i + 1, Append(cur, s[i]))

Split(s) == SplitFrom(s, 1, <<>>)

\* Number(segment): "" is 0, a digit string its decimal value, anything else NaN
RECURSIVE DecimalValue(_, _)
DecimalValue(seg, acc) ==
    IF seg = <<>> THEN acc
    ELSE DecimalValue(Tail(seg), acc * 10 + DigitValue(Head(seg)))

ToNumber(seg) ==
    IF \A i \in 1..Len(seg) : seg[i] \in Digits
    THEN Num(DecimalValue(seg, 0))
    ELSE NaN

\* version.split('.').map(Number)
Parts(version) ==
    Once(Split(version), LAMBDA segs : [i \in 1..Len(segs) |-> ToNumber(segs[i])])

\* vParts[i] || 0 (i counted from 1 here); an index past the end reads undefined
PartOrZero(parts, i) == IF i > Len(parts) THEN 0 ELSE OrZero(parts[i])

RECURSIVE CompareFrom(_, _, _, _)
CompareFrom(v1Parts, v2Parts, i, maxLength) ==
    IF i > maxLength THEN 0
    ELSE LET v1Part == PartOrZero(v1Parts, i)
             v2Part == PartOrZero(v2Parts, i)
         IN IF v1Part < v2Part THEN -1
            ELSE IF v1Part > v2Part THEN 1
            ELSE CompareFrom(v1Parts, v2Parts, i + 1, maxLength)

\* Mutant: the segments are compared as strings (map(Number) left out); a
\* missing segment reads "0"
CharCode(c) == CASE c = "." -> 46 [] c = "0" -> 48 [] c = "1" -> 49 [] c = "2" -> 50 [] c = "a" -> 97

RECURSIVE StringCompare(_, _)
StringCompare(s, t) ==
    IF s = <<>> /\ t = <<>> THEN 0
    ELSE IF s = <<>> THEN -1
    ELSE IF t = <<>> THEN 1
    ELSE IF CharCode(Head(s)) < CharCode(Head(t)) THEN -1
    ELSE IF CharCode(Head(s)) > CharCode(Head(t)) THEN 1
    ELSE StringCompare(Tail(s), Tail(t))

RECURSIVE StringCompareFrom(_, _, _, _)
StringCompareFrom(s1, s2, i, maxLength) ==
    IF i > maxLength THEN 0
    ELSE LET p1 == IF i > Len(s1) THEN <<"0">> ELSE s1[i]
             p2 == IF i > Len(s2) THEN <<"0">> ELSE s2[i]
             c == StringCompare(p1, p2)
         IN IF c # 0 THEN c ELSE StringCompareFrom(s1, s2, i + 1, maxLength)

compareVersionsAsStrings(v1, v2) ==
    StringCompareFrom(Split(v1), Split(v2), 1, Max(Len(Split(v1)), Len(Split(v2))))

\* Mutant: when all compared segments are equal the version with more segments
\* is the greater one (no zero padding of the shorter one)
compareVersionsByLength(v1, v2) ==
    LET v1Parts == Parts(v1)
        v2Parts == Parts(v2)
        minLength == IF Len(v1Parts) <= Len(v2Parts) THEN Len(v1Parts) ELSE Len(v2Parts)
        c == CompareFrom(v1Parts, v2Parts, 1, minLength)
    IN IF c # 0 THEN c ELSE Sign(Len(v1Parts) - Len(v2Parts))

\* Mutant: "|| 0" left out, so a NaN segment compares neither less nor greater
RECURSIVE CompareFromNoCoercion(_, _, _, _)
CompareFromNoCoercion(v1Parts, v2Parts, i, maxLength) ==
    IF i > maxLength THEN 0
    ELSE LET p1 == IF i > Len(v1Parts) THEN NaN ELSE v1Parts[i]
             p2 == IF i > Len(v2Parts) THEN NaN ELSE v2Parts[i]
         IN IF ~p1.nan /\ ~p2.nan /\ p1.v < p2.v THEN -1
            ELSE IF ~p1.nan /\ ~p2.nan /\ p1.v > p2.v THEN 1
            ELSE CompareFromNoCoercion(v1Parts, v2Parts, i + 1, maxLength)

compareVersionsNoCoercion(v1, v2) ==
    CompareFromNoCoercion(Parts(v1), Parts(v2), 1, Max(Len(Parts(v1)), Len(Parts(v2))))

\* Mutant: the loop runs over the segments of version1 only (no Math.max)
compareVersionsFirstLength(v1, v2) ==
    LET v1Parts == Parts(v1)
        v2Parts == Parts(v2)
    IN CompareFrom(v1Parts, v2Parts, 1, Len(v1Parts))

compareVersions(version1Arg, version2Arg) ==
    Once(Parts(version1Arg), LAMBDA v1Parts :
    Once(Parts(version2Arg), LAMBDA v2Parts :
    Once(Max(Len(v1Parts), Len(v2Parts)), LAMBDA maxLength :
        CompareFrom(v1Parts, v2Parts, 1, maxLength))))

----------------------------------------------------------------------------
(* Document records *)

Rec(d, id, ver, date) ==
    [documentId |-> d, validationId |-> id, version |-> ver, date |-> date]

V1 == <<"1">>
V10 == <<"1", ".", "0">>
V100 == <<"1", ".", "0", ".", "0">>
V2 == <<"2">>
V200 == <<"2", ".", "0", ".", "0">>

\* The records a documents.json is made of here: two lineages, duplicated and
\* empty validation ids, versions that compare equal without being the same
\* string, and a date that does not parse.
RecordPool ==
    { Rec("D1", "A", V100, "2024-01-01"),
      Rec("D1", "B", V200, "2024-02-01"),
      Rec("D1", "A", V10,  "not-a-date"),
      Rec("D1", "",  V1,   "2024-03-01"),
      Rec("D2", "B", V2,   "2024-01-01T00:00:00Z") }

DocumentLists == UNION {[1..n -> RecordPool] : n \in 0..MaxDocs}

DocumentIds == {"D1", "D2"}
QueryIds == {Null, "", "A", "Z"}

\* new Date(date).getTime(), in seconds since the epoch (the code's
\* milliseconds divided by 1000); a string that is no date gives NaN
ParseDate(date) ==
    CASE date = "2024-01-01" -> Num(1704067200)
      [] date = "2024-01-01T00:00:00Z" -> Num(1704067200)
      [] date = "2024-02-01" -> Num(1706745600)
      [] date = "2024-03-01" -> Num(1709251200)
      [] OTHER -> NaN

\* new Date(x) - new Date(y)
DateDifference(x, y) ==
    LET dx == ParseDate(x)
        dy == ParseDate(y)
    IN IF dx.nan \/ dy.nan THEN NaN ELSE Num(dx.v - dy.v)

\* new Date(x) >= new Date(y): false as soon as one side is NaN
DateAtLeast(x, y) ==
    LET dx == ParseDate(x)
        dy == ParseDate(y)
    IN ~dx.nan /\ ~dy.nan /\ dx.v >= dy.v

----------------------------------------------------------------------------
(* Array.prototype.sort with the comparator of getLatestDocumentVersion *)

\* Mutant: the version comparison is not negated, so the sort is ascending
SortComparatorAscending(a, b) ==
    Once(compareVersions(a.version, b.version), LAMBDA versionCompare :
        IF versionCompare # 0 THEN Num(versionCompare)
        ELSE DateDifference(b.date, a.date))

\* the comparator (a, b) => ... of getLatestDocumentVersion
SortComparator(a, b) ==
    Once(compareVersions(a.version, b.version), LAMBDA versionCompare :
        IF versionCompare # 0 THEN Num(-versionCompare)
        ELSE DateDifference(b.date, a.date))

\* sort reads a NaN returned by the comparator as +0
SortOrder(a, b) == Sign(OrZero(SortComparator(a, b)))

\* SortOrder on the records of the pool, tabulated
OrderTable == [a \in RecordPool, b \in RecordPool |-> SortOrder(a, b)]

\* a consistent comparator for these values, in the sense of ECMAScript
ConsistentComparator(S) ==
    /\ \A a \in S : OrderTable[a, a] = 0
    /\ \A a, b \in S : (OrderTable[a, b] < 0) <=> (OrderTable[b, a] > 0)
    /\ \A a, b, c \in S :
          /\ (OrderTable[a, b] = 0 /\ OrderTable[b, c] = 0) => OrderTable[a, c] = 0
          /\ (OrderTable[a, b] < 0 /\ OrderTable[b, c] < 0) => OrderTable[a, c] < 0
          /\ (OrderTable[a, b] > 0 /\ OrderTable[b, c] > 0) => OrderTable[a, c] > 0

Range(f) == {f[i] : i \in DOMAIN f}

SeqPermutations(s) ==
    {p \in [1..Len(s) -> Range(s)] : \A i, j \in 1..Len(s) : (p[i] = p[j]) => (i = j)}

\* The orders sort can leave the references refs into docs in (refs is in
\* array order).  With a consistent comparator it is the stable sort: what
\* the comparator puts first comes first, and what it leaves equal stays in
\* array order.  Otherwise the order is implementation-defined; what the
\* insertion and merge sorts of the engines guarantee even then is that no
\* element is directly followed by one the comparator puts before it.
SortOutcomes(docs, refs) ==
    IF ConsistentComparator({docs[i] : i \in Range(refs)})
    THEN {p \in SeqPermutations(refs) :
             \A i, j \in 1..Len(p) :
                 (i < j) => \/ OrderTable[docs[p[i]], docs[p[j]]] < 0
                            \/ (OrderTable[docs[p[i]], docs[p[j]]] = 0 /\ p[i] < p[j])}
    ELSE {p \in SeqPermutations(refs) :
             \A i \in 1..(Len(p) - 1) : OrderTable[docs[p[i]], docs[p[i + 1]]] <= 0}

\* this.documents.filter(doc => doc.documentId === documentId), as references
RECURSIVE FilterFrom(_, _, _)
FilterFrom(docs, documentId, i) ==
    IF i > Len(docs) THEN <<>>
    ELSE IF docs[i].documentId = documentId
         THEN <<i>> \o FilterFrom(docs, documentId, i + 1)
         ELSE FilterFrom(docs, documentId, i + 1)

FilterByDocumentId(docs, documentId) == FilterFrom(docs, documentId, 1)

\* The stable insertion sort, which leaves an array alone as long as the
\* comparator does not put an element before its left neighbour: x is moved
\* left past the elements it compares less than
InsertSorted(docs, sorted, x) ==
    Once(Max(0, Cardinality({j \in 1..Len(sorted) :
                 \E k \in j..Len(sorted) : OrderTable[docs[x], docs[sorted[k]]] >= 0})),
         LAMBDA k : SubSeq(sorted, 1, k) \o <<x>> \o SubSeq(sorted, k + 1, Len(sorted)))

RECURSIVE InsertionSortFrom(_, _, _, _)
InsertionSortFrom(docs, refs, i, sorted) ==
    IF i > Len(refs) THEN sorted
    ELSE Once(InsertSorted(docs, sorted, refs[i]),
              LAMBDA next : InsertionSortFrom(docs, refs, i + 1, next))

InsertionSort(docs, refs) == InsertionSortFrom(docs, refs, 1, <<>>)

\* the first elements the engines can leave in the sorted array
SortHeads(docs, refs) ==
    IF Len(refs) = 0 THEN {} ELSE {p[1] : p \in SortOutcomes(docs, refs)}

\* The engines at hand: engine 0 sorts by insertion, engine k > 0 leaves the
\* k-th possible first element (in array order) in front.  They differ only
\* where the comparator is not consistent.
EngineChoices(docs) ==
    Once(Cardinality(UNION {SortHeads(docs, FilterByDocumentId(docs, d)) : d \in DocumentIds}),
         LAMBDA n : IF \A d \in DocumentIds :
                          Cardinality(SortHeads(docs, FilterByDocumentId(docs, d))) <= 1
                    THEN {0} ELSE 0..n)

PickHead(heads, k) == CHOOSE h \in heads : Cardinality({g \in heads : g < h}) = k

\* documentVersions[0] for the engine at hand: the same array sorted again
\* by the same engine comes out the same
SortedHead(docs, refs) ==
    IF engine = 0 THEN InsertionSort(docs, refs)[1]
    ELSE Once(SortHeads(docs, refs),
              LAMBDA heads : PickHead(heads, (engine - 1) % Cardinality(heads)))

----------------------------------------------------------------------------
(* The methods of DocumentValidator, reading this.documents *)

\* Array.prototype.find: the first element the predicate holds of, from index i on
RECURSIVE FindFrom(_, _)
FindFrom(id, i) ==
    IF i > Len(documents) THEN 0
    ELSE IF documents[i].validationId = id THEN i
    ELSE FindFrom(id, i + 1)

\* Mutant: the last match is returned (findLast)
RECURSIVE FindLastFrom(_, _)
FindLastFrom(id, i) ==
    IF i < 1 THEN 0
    ELSE IF documents[i].validationId = id THEN i
    ELSE FindLastFrom(id, i - 1)

findLastDocumentByValidationId(id) == FindLastFrom(id, Len(documents))

findDocumentByValidationId(id) == FindFrom(id, 1)

getLatestDocumentVersion(documentId) ==
    Once(FilterByDocumentId(documents, documentId), LAMBDA documentVersions :
        IF Len(documentVersions) > 0 THEN SortedHead(documents, documentVersions) ELSE 0)

isLatestVersion(doc) ==
    Once(getLatestDocumentVersion(documents[doc].documentId), LAMBDA latest :
        IF latest = 0 THEN FALSE
        ELSE Once(compareVersions(documents[doc].version, documents[latest].version),
                  LAMBDA versionCompare :
                      IF versionCompare # 0 THEN versionCompare > 0
                      ELSE DateAtLeast(documents[doc].date, documents[latest].date)))

\* Mutant: this.documents itself is sorted (no filter before the sort)
DocumentsSortedInPlace(documentId) ==
    LET outcomes == SortOutcomes(documents, [i \in 1..Len(documents) |-> i])
        order == CHOOSE p \in outcomes : \A q \in outcomes : p[1] <= q[1]
    IN [i \in 1..Len(documents) |-> documents[order[i]]]

\* what the calls leave in this.documents: filter returns a new array, and
\* it is that array sort reorders
DocumentsAfterSort(documentId) == documents

----------------------------------------------------------------------------
(* The page states *)

Loading == [status |-> "loading", title |-> "Validating Document", latest |-> 0]

showValidState == [status |-> "valid", title |-> "Document Valid", latest |-> 0]

showInvalidState(latestDocument) ==
    [status |-> "invalid", title |-> "Document Not Latest", latest |-> latestDocument]

showGrayState(title) == [status |-> "gray", title |-> title, latest |-> 0]

showErrorState == showGrayState("Error")

\* !x for an id: null and the empty string are falsy
Falsy(id) == id = Null \/ id = ""

\* The methods validateDocument invokes, in order, on each of its paths past
\* the check of the id; isLatestVersion invokes getLatestDocumentVersion
InvokedNotFound == <<"findDocumentByValidationId">>
InvokedLatest ==
    <<"findDocumentByValidationId", "isLatestVersion", "getLatestDocumentVersion">>
InvokedOutdated ==
    <<"findDocumentByValidationId", "isLatestVersion", "getLatestDocumentVersion",
      "getLatestDocumentVersion">>

\* Mutant: the check of the missing id is left out
validateDocumentNoIdCheck(id) ==
    Once(findDocumentByValidationId(id), LAMBDA found :
        IF found = 0
        THEN [display |-> showGrayState("Document not found"), current |-> found,
              sorted |-> Null, invoked |-> InvokedNotFound]
        ELSE IF isLatestVersion(found)
        THEN [display |-> showValidState, current |-> found,
              sorted |-> documents[found].documentId, invoked |-> InvokedLatest]
        ELSE [display |-> showInvalidState(getLatestDocumentVersion(documents[found].documentId)),
              current |-> found, sorted |-> documents[found].documentId,
              invoked |-> InvokedOutdated])

\* validateDocument() with this.validationId = id: the state shown, the new
\* this.currentDocument, the lineage that was sorted on the way, if any, and
\* the methods invoked on the way
validateDocument(id) ==
    IF Falsy(id)
    THEN [display |-> showGrayState("No validation ID provided"),
          current |-> currentDocument, sorted |-> Null, invoked |-> <<>>]
    ELSE Once(findDocumentByValidationId(id), LAMBDA found :
            IF found = 0
            THEN [display |-> showGrayState("Document not found"), current |-> found,
                  sorted |-> Null, invoked |-> InvokedNotFound]
            ELSE IF isLatestVersion(found)
            THEN [display |-> showValidState, current |-> found,
                  sorted |-> documents[found].documentId, invoked |-> InvokedLatest]
            ELSE [display |-> showInvalidState(getLatestDocumentVersion(documents[found].documentId)),
                  current |-> found, sorted |-> documents[found].documentId,
                  invoked |-> InvokedOutdated])

NoCall == [name |-> "none", arg |-> <<>>, result |-> 0]

----------------------------------------------------------------------------
(* One page load: the constructor and init() *)

UrlIds == {Null, "", "A", "B", "Z"}

\* what fetch(jsonPath) and response.json() can give
Responses ==
    [kind : {"network", "httpError", "badJson", "notArray"}, body : {<<>>}]
        \cup [kind : {"array"}, body : DocumentLists]

Init ==
    /\ documents = <<>>
    /\ validationId = Null
    /\ currentDocument = 0
    /\ pc = "init"
    /\ display = Loading
    /\ thrown = "none"
    /\ urlId \in UrlIds
    /\ response \in Responses
    /\ engine \in EngineChoices(response.body)
    /\ call = NoCall
    /\ version1 = <<>>
    /\ version2 = <<>>
    /\ IndexNotOpen

\* urlParams.get('id') || null
getValidationIdFromUrl == IF Falsy(urlId) THEN Null ELSE urlId

GetValidationId ==
    /\ pc = "init"
    /\ validationId' = getValidationIdFromUrl
    /\ pc' = "fetch"
    /\ UNCHANGED <<documents, currentDocument, display, thrown, urlId, response,
                   engine, call, version1, version2,
                   indexVars>>

\* loadDocuments: fetch rejects; the catch block rethrows, with the message
\* that depends on the protocol and on the browser's own message
FetchFails ==
    /\ pc = "fetch"
    /\ response.kind = "network"
    /\ thrown' \in {"FileProtocol", "FailedToFetchPath", "TypeError"}
    /\ pc' = "catch"
    /\ UNCHANGED <<documents, validationId, currentDocument, display, urlId, response,
                   engine, call, version1, version2,
                   indexVars>>

\* loadDocuments: !response.ok
ResponseNotOk ==
    /\ pc = "fetch"
    /\ response.kind = "httpError"
    /\ thrown' = "HttpError"
    /\ pc' = "catch"
    /\ UNCHANGED <<documents, validationId, currentDocument, display, urlId, response,
                   engine, call, version1, version2,
                   indexVars>>

ResponseOk ==
    /\ pc = "fetch"
    /\ response.kind \in {"badJson", "notArray", "array"}
    /\ pc' = "json"
    /\ UNCHANGED <<documents, validationId, currentDocument, display, thrown, urlId,
                   response, engine, call, version1, version2,
                   indexVars>>

\* loadDocuments: response.json() rejects
JsonFails ==
    /\ pc = "json"
    /\ response.kind = "badJson"
    /\ thrown' = "SyntaxError"
    /\ pc' = "catch"
    /\ UNCHANGED <<documents, validationId, currentDocument, display, urlId, response,
                   engine, call, version1, version2,
                   indexVars>>

\* loadDocuments: !Array.isArray(jsonData)
JsonNotArray ==
    /\ pc = "json"
    /\ response.kind = "notArray"
    /\ thrown' = "InvalidFormat"
    /\ pc' = "catch"
    /\ UNCHANGED <<documents, validationId, currentDocument, display, urlId, response,
                   engine, call, version1, version2,
                   indexVars>>

\* loadDocuments: this.documents = jsonData, and the await in init() returns
JsonArray ==
    /\ pc = "json"
    /\ response.kind = "array"
    /\ documents' = response.body
    /\ pc' = "validate"
    /\ UNCHANGED <<validationId, currentDocument, display, thrown, urlId, response,
                   engine, call, version1, version2,
                   indexVars>>

\* Mutant: init() does not await loadDocuments()
ValidateReadyNoAwait == pc \in {"fetch", "json", "validate"}

\* init() reaches this.validateDocument() when await this.loadDocuments() returns
ValidateReady == pc = "validate"

ValidateDocument ==
    /\ ValidateReady
    /\ \E r \in {validateDocument(validationId)} :
          /\ currentDocument' = r.current
          /\ display' = r.display
          /\ documents' = IF r.sorted = Null THEN documents
                          ELSE DocumentsAfterSort(r.sorted)
          /\ call' = [name |-> "validateDocument", arg |-> validationId,
                      result |-> r.display, invoked |-> r.invoked]
    /\ pc' = "done"
    /\ UNCHANGED <<validationId, thrown, urlId, response, engine, version1, version2,
                   indexVars>>

\* the catch block of init(): the message is chosen by what error.message includes
errorMessage ==
    CASE thrown = "HttpError" -> "Failed to load documents database. HTTP Status"
      [] thrown = "FailedToFetchPath" -> "Unable to load documents database"
      [] thrown \in {"SyntaxError", "InvalidFormat"} -> "Invalid documents database format"
      [] OTHER -> "Error: message"

InitCatch ==
    /\ pc = "catch"
    /\ display' = showErrorState
    /\ call' = [name |-> "showErrorState", arg |-> errorMessage, result |-> 0]
    /\ pc' = "done"
    /\ UNCHANGED <<documents, validationId, currentDocument, thrown, urlId, response,
                   engine, version1, version2,
                   indexVars>>

Next ==
    \/ GetValidationId
    \/ FetchFails
    \/ ResponseNotOk
    \/ ResponseOk
    \/ JsonFails
    \/ JsonNotArray
    \/ JsonArray
    \/ ValidateDocument
    \/ InitCatch

Spec == Init /\ [][Next]_vars

----------------------------------------------------------------------------
(* Calls of the methods on a loaded validator, in any order *)

InitCalls ==
    /\ response \in [kind : {"array"}, body : DocumentLists]
    /\ documents = response.body
    /\ engine \in EngineChoices(response.body)
    /\ validationId = Null
    /\ currentDocument = 0
    /\ pc = "loaded"
    /\ display = Loading
    /\ thrown = "none"
    /\ urlId = Null
    /\ call = NoCall
    /\ version1 = <<>>
    /\ version2 = <<>>
    /\ IndexNotOpen

CallFindDocumentByValidationId ==
    /\ pc = "loaded"
    /\ \E id \in QueryIds :
          call' = [name |-> "findDocumentByValidationId", arg |-> id,
                   result |-> findDocumentByValidationId(id)]
    /\ UNCHANGED <<documents, validationId, currentDocument, pc, display, thrown,
                   urlId, response, engine, version1, version2,
                   indexVars>>

CallGetLatestDocumentVersion ==
    /\ pc = "loaded"
    /\ \E documentId \in DocumentIds :
          /\ call' = [name |-> "getLatestDocumentVersion", arg |-> documentId,
                      result |-> getLatestDocumentVersion(documentId)]
          /\ documents' = DocumentsAfterSort(documentId)
    /\ UNCHANGED <<validationId, currentDocument, pc, display, thrown,
                   urlId, response, engine, version1, version2,
                   indexVars>>

CallIsLatestVersion ==
    /\ pc = "loaded"
    /\ \E doc \in 1..Len(documents) :
          /\ call' = [name |-> "isLatestVersion", arg |-> doc,
                      result |-> isLatestVersion(doc)]
          /\ documents' = DocumentsAfterSort(documents[doc].documentId)
    /\ UNCHANGED <<validationId, currentDocument, pc, display, thrown,
                   urlId, response, engine, version1, version2,
                   indexVars>>

\* this.validationId = id; this.validateDocument()
CallValidateDocument ==
    /\ pc = "loaded"
    /\ \E id \in QueryIds :
          \E r \in {validateDocument(id)} :
             /\ validationId' = id
             /\ currentDocument' = r.current
             /\ display' = r.display
             /\ documents' = IF r.sorted = Null THEN documents
                             ELSE DocumentsAfterSort(r.sorted)
             /\ call' = [name |-> "validateDocument", arg |-> id, result |-> r.display,
                         invoked |-> r.invoked]
    /\ UNCHANGED <<pc, thrown, urlId, response, engine, version1, version2,
                   indexVars>>

NextCalls ==
    \/ CallFindDocumentByValidationId
    \/ CallGetLatestDocumentVersion
    \/ CallIsLatestVersion
    \/ CallValidateDocument

SpecCalls == InitCalls /\ [][NextCalls]_vars

\* the same calls in an engine that sorts by insertion
InitInsertionSort == InitCalls /\ engine = 0

SpecInsertionSort == InitInsertionSort /\ [][NextCalls]_vars

----------------------------------------------------------------------------
(* Calls of compareVersions on arbitrary version strings *)

InitCmp ==
    /\ documents = <<>>
    /\ validationId = Null
    /\ currentDocument = 0
    /\ pc = "ready"
    /\ display = Loading
    /\ thrown = "none"
    /\ urlId = Null
    /\ response = [kind |-> "array", body |-> <<>>]
    /\ engine = 0
    /\ call = NoCall
    /\ version1 \in VersionStrings
    /\ version2 \in VersionStrings
    /\ IndexNotOpen

CallCompareVersions ==
    /\ pc = "ready"
    /\ call.name = "none"
    /\ call' = [name |-> "compareVersions", arg |-> <<version1, version2>>,
                result |-> compareVersions(version1, version2)]
    /\ UNCHANGED <<documents, validationId, currentDocument, pc, display, thrown,
                   urlId, response, engine, version1, version2,
                   indexVars>>

NextCmp == CallCompareVersions

SpecCmp == InitCmp /\ [][NextCmp]_vars

----------------------------------------------------------------------------
(* The index page: ValidationIndex, its constructor and init() *)

docVars == <<documents, validationId, currentDocument, pc, display, thrown,
             urlId, response, engine, call, version1, version2>>

\* the documents page is not open
DocumentsPageNotOpen ==
    /\ documents = <<>>
    /\ validationId = Null
    /\ currentDocument = 0
    /\ pc = "closed"
    /\ display = Loading
    /\ thrown = "none"
    /\ urlId = Null
    /\ response = [kind |-> "array", body |-> <<>>]
    /\ engine = 0
    /\ call = NoCall
    /\ version1 = <<>>
    /\ version2 = <<>>

\* const knownTypes = ['document']
knownTypes == <<"document">>

\* the ids of the entries a validation-types.json is made of here
TypeIds == {"document", "certificate"}

ManifestBodies == UNION {[1..n -> TypeIds] : n \in 0..MaxTypes}

\* error.message of a rejected fetch: Chromium, Firefox, Safari
FetchErrorMessages ==
    {"Failed to fetch", "NetworkError when attempting to fetch resource.", "Load failed"}

\* error.message of a rejected response.json()
JsonErrorMessages ==
    {"Unexpected end of JSON input", "Unexpected token } in JSON at position 404"}

HttpStatuses == {403, 404, 500}

\* `HTTP error! status: ${response.status}`
HttpErrorMessage(status) ==
    CASE status = 403 -> "HTTP error! status: 403"
      [] status = 404 -> "HTTP error! status: 404"
      [] status = 500 -> "HTTP error! status: 500"

NoTypesFound == "No validation types found"
InvalidFormat == "Invalid JSON format: validation-types.json must be an array"

\* error.message.includes('404')
Includes404(message) ==
    message \in {"HTTP error! status: 404", "Unexpected token } in JSON at position 404"}

\* error.message.includes('Failed to fetch')
IncludesFailedToFetch(message) == message = "Failed to fetch"

\* what fetch(jsonPath) and response.json() can give
Manifests ==
    [kind : {"rejects"}, status : {0}, message : FetchErrorMessages, body : {<<>>}]
        \cup [kind : {"notOk"}, status : HttpStatuses, message : {"none"}, body : {<<>>}]
        \cup [kind : {"badJson"}, status : {200}, message : JsonErrorMessages, body : {<<>>}]
        \cup [kind : {"notArray"}, status : {200}, message : {"none"}, body : {<<>>}]
        \cup [kind : {"array"}, status : {200}, message : {"none"}, body : ManifestBodies]

\* what fetch(testPath, { method: 'HEAD' }) can give for each known type
Probes == [1..Len(knownTypes) -> {"ok", "notOk", "rejects"}]

InitIndex ==
    /\ DocumentsPageNotOpen
    /\ validationTypes = <<>>
    /\ indexPc = "fetch"
    /\ manifest \in Manifests
    /\ probe \in Probes
    /\ typeIndex = 0
    /\ discoveredTypes = <<>>
    /\ discovery = "none"
    /\ indexError = "none"
    /\ indexPage = "loading"

\* loadValidationTypes: fetch rejects, and the catch block is entered
ManifestFetchRejects ==
    /\ indexPc = "fetch"
    /\ manifest.kind = "rejects"
    /\ indexError' = manifest.message
    /\ indexPc' = "loadCatch"
    /\ UNCHANGED <<validationTypes, manifest, probe, typeIndex, discoveredTypes,
                   discovery, indexPage, docVars>>

\* loadValidationTypes: !response.ok and response.status === 404
ManifestNotFound ==
    /\ indexPc = "fetch"
    /\ manifest.kind = "notOk"
    /\ manifest.status = 404
    /\ discovery' = "try"
    /\ typeIndex' = 1
    /\ discoveredTypes' = <<>>
    /\ indexPc' = "discover"
    /\ UNCHANGED <<validationTypes, manifest, probe, indexError, indexPage, docVars>>

\* loadValidationTypes: !response.ok with another status
ManifestNotOk ==
    /\ indexPc = "fetch"
    /\ manifest.kind = "notOk"
    /\ manifest.status # 404
    /\ indexError' = HttpErrorMessage(manifest.status)
    /\ indexPc' = "loadCatch"
    /\ UNCHANGED <<validationTypes, manifest, probe, typeIndex, discoveredTypes,
                   discovery, indexPage, docVars>>

ManifestOk ==
    /\ indexPc = "fetch"
    /\ manifest.kind \in {"badJson", "notArray", "array"}
    /\ indexPc' = "json"
    /\ UNCHANGED <<validationTypes, manifest, probe, typeIndex, discoveredTypes,
                   discovery, indexError, indexPage, docVars>>

\* loadValidationTypes: response.json() rejects
ManifestJsonFails ==
    /\ indexPc = "json"
    /\ manifest.kind = "badJson"
    /\ indexError' = manifest.message
    /\ indexPc' = "loadCatch"
    /\ UNCHANGED <<validationTypes, manifest, probe, typeIndex, discoveredTypes,
                   discovery, indexPage, docVars>>

\* loadValidationTypes: !Array.isArray(jsonData)
ManifestNotArray ==
    /\ indexPc = "json"
    /\ manifest.kind = "notArray"
    /\ indexError' = InvalidFormat
    /\ indexPc' = "loadCatch"
    /\ UNCHANGED <<validationTypes, manifest, probe, typeIndex, discoveredTypes,
                   discovery, indexPage, docVars>>

\* loadValidationTypes: this.validationTypes = jsonData
ManifestArray ==
    /\ indexPc = "json"
    /\ manifest.kind = "array"
    /\ validationTypes' = manifest.body
    /\ indexPc' = "render"
    /\ UNCHANGED <<manifest, probe, typeIndex, discoveredTypes, discovery,
                   indexError, indexPage, docVars>>

\* the test of the catch block of loadValidationTypes
DiscoveryFallback(message) == Includes404(message) \/ IncludesFailedToFetch(message)

\* loadValidationTypes, catch block: discovery as fallback
LoadCatchDiscovers ==
    /\ indexPc = "loadCatch"
    /\ DiscoveryFallback(indexError)
    /\ indexError' = "none"
    /\ discovery' = "catch"
    /\ typeIndex' = 1
    /\ discoveredTypes' = <<>>
    /\ indexPc' = "discover"
    /\ UNCHANGED <<validationTypes, manifest, probe, indexPage, docVars>>

\* loadValidationTypes, catch block: throw error
LoadCatchRethrows ==
    /\ indexPc = "loadCatch"
    /\ ~DiscoveryFallback(indexError)
    /\ indexPc' = "initCatch"
    /\ UNCHANGED <<validationTypes, manifest, probe, typeIndex, discoveredTypes,
                   discovery, indexError, indexPage, docVars>>

\* discoverValidationTypes, loop body: response.ok, the type is pushed
ProbeOk ==
    /\ indexPc = "discover"
    /\ typeIndex <= Len(knownTypes)
    /\ probe[typeIndex] = "ok"
    /\ discoveredTypes' = Append(discoveredTypes, knownTypes[typeIndex])
    /\ typeIndex' = typeIndex + 1
    /\ UNCHANGED <<validationTypes, indexPc, manifest, probe, discovery, indexError,
                   indexPage, docVars>>

\* discoverValidationTypes, loop body: !response.ok, nothing is pushed
ProbeNotOk ==
    /\ indexPc = "discover"
    /\ typeIndex <= Len(knownTypes)
    /\ probe[typeIndex] = "notOk"
    /\ typeIndex' = typeIndex + 1
    /\ UNCHANGED <<validationTypes, indexPc, manifest, probe, discoveredTypes,
                   discovery, indexError, indexPage, docVars>>

\* discoverValidationTypes, loop body: fetch rejects, the catch block skips the type
ProbeRejects ==
    /\ indexPc = "discover"
    /\ typeIndex <= Len(knownTypes)
    /\ probe[typeIndex] = "rejects"
    /\ typeIndex' = typeIndex + 1
    /\ UNCHANGED <<validationTypes, indexPc, manifest, probe, discoveredTypes,
                   discovery, indexError, indexPage, docVars>>

\* discoverValidationTypes: discoveredTypes.length > 0
DiscoveryFound ==
    /\ indexPc = "discover"
    /\ typeIndex > Len(knownTypes)
    /\ Len(discoveredTypes) > 0
    /\ validationTypes' = discoveredTypes
    /\ indexPc' = "render"
    /\ UNCHANGED <<manifest, probe, typeIndex, discoveredTypes, discovery,
                   indexError, indexPage, docVars>>

\* discoverValidationTypes: throw new Error('No validation types found'); the
\* call inside the try block of loadValidationTypes throws into its catch block
DiscoveryEmpty ==
    /\ indexPc = "discover"
    /\ typeIndex > Len(knownTypes)
    /\ Len(discoveredTypes) = 0
    /\ indexError' = NoTypesFound
    /\ indexPc' = IF discovery = "try" THEN "loadCatch" ELSE "initCatch"
    /\ UNCHANGED <<validationTypes, manifest, probe, typeIndex, discoveredTypes,
                   discovery, indexPage, docVars>>

\* init: this.renderValidationTypes()
RenderValidationTypes ==
    /\ indexPc = "render"
    /\ indexPage' = IF Len(validationTypes) = 0 THEN "noTypes" ELSE "types"
    /\ indexPc' = "done"
    /\ UNCHANGED <<validationTypes, manifest, probe, typeIndex, discoveredTypes,
                   discovery, indexError, docVars>>

\* init, catch block: this.showError(...)
IndexInitCatch ==
    /\ indexPc = "initCatch"
    /\ indexPage' = "error"
    /\ indexPc' = "done"
    /\ UNCHANGED <<validationTypes, manifest, probe, typeIndex, discoveredTypes,
                   discovery, indexError, docVars>>

NextIndex ==
    \/ ManifestFetchRejects
    \/ ManifestNotFound
    \/ ManifestNotOk
    \/ ManifestOk
    \/ ManifestJsonFails
    \/ ManifestNotArray
    \/ ManifestArray
    \/ LoadCatchDiscovers
    \/ LoadCatchRethrows
    \/ ProbeOk
    \/ ProbeNotOk
    \/ ProbeRejects
    \/ DiscoveryFound
    \/ DiscoveryEmpty
    \/ RenderValidationTypes
    \/ IndexInitCatch

SpecIndex == InitIndex /\ [][NextIndex]_vars

----------------------------------------------------------------------------
(* Notions the claims about the resolver are stated in *)

ExampleA == Rec("D1", "A", V100, "2024-01-01")
ExampleB == Rec("D1", "B", V200, "2024-02-01")

\* the records of a lineage, as references
Lineage(documentId) == {i \in 1..Len(documents) : documents[i].documentId = documentId}

Matches(id) == {i \in 1..Len(documents) : documents[i].validationId = id}

Least(S) == CHOOSE i \in S : \A j \in S : i <= j

VersionOf(i) == documents[i].version

\* both dates parse and x is the earlier instant
DateEarlier(x, y) == ~ParseDate(x).nan /\ ~ParseDate(y).nan /\ ParseDate(x).v < ParseDate(y).v

\* record i comes strictly before record m in the order (version, then date)
StrictlySmaller(i, m) ==
    \/ compareVersions(VersionOf(i), VersionOf(m)) < 0
    \/ /\ compareVersions(VersionOf(i), VersionOf(m)) = 0
       /\ DateEarlier(documents[i].date, documents[m].date)

UniqueMaximum(m, L) == m \in L /\ \A i \in L \ {m} : StrictlySmaller(i, m)

\* the insertion sort is one of the orders sort is taken to leave
InsertionSortIsAnOutcome ==
    \A d \in DocumentIds :
        Lineage(d) # {} =>
            InsertionSort(documents, FilterByDocumentId(documents, d))
                \in SortOutcomes(documents, FilterByDocumentId(documents, d))

Outcome ==
    CASE display.status = "valid" -> "Latest"
      [] display.status = "invalid" -> "Outdated"
      [] display.status = "gray" /\ display.title = "No validation ID provided" -> "NoId"
      [] display.status = "gray" /\ display.title = "Document not found" -> "NotFound"
      [] display.status = "gray" /\ display.title = "Error" -> "Error"
      [] OTHER -> "Loading"

\* C1: getLatestDocumentVersion(documentId) returns null exactly when no
\* record has that documentId; otherwise it returns a record of that lineage
\* whose version compares greater than or equal to the version of every
\* record of the lineage.
C1_LatestIsVersionMaximal ==
    (call.name = "getLatestDocumentVersion") =>
        /\ (call.result = 0) <=> (Lineage(call.arg) = {})
        /\ (call.result # 0) =>
              /\ call.result \in Lineage(call.arg)
              /\ \A i \in Lineage(call.arg) :
                    compareVersions(VersionOf(call.result), VersionOf(i)) >= 0

\* the lineage holds a lower version first and a higher one after it, and
\* the higher one has been returned
C1_Witness ==
    /\ call.name = "getLatestDocumentVersion"
    /\ call.result = 2
    /\ 1 \in Lineage(call.arg)
    /\ compareVersions(VersionOf(2), VersionOf(1)) > 0

\* C2: validateDocument ends in one of NoId, NotFound, Latest, Outdated: NoId
\* when the id is absent or empty; NotFound when no record has that
\* validationId; Latest with the found record when isLatestVersion holds of
\* it; otherwise Outdated with the found record and
\* getLatestDocumentVersion of its documentId.  With the records A (1.0.0)
\* and B (2.0.0) of one lineage, id A gives Outdated(A, B), id B gives
\* Latest(B) and an unknown id gives NotFound.
C2_DecisionTree ==
    (call.name = "validateDocument") =>
        /\ Outcome \in {"NoId", "NotFound", "Latest", "Outdated"}
        /\ Falsy(urlId) => Outcome = "NoId"
        /\ (~Falsy(urlId) /\ Matches(urlId) = {}) => Outcome = "NotFound"
        /\ (~Falsy(urlId) /\ Matches(urlId) # {}) =>
              /\ currentDocument = Least(Matches(urlId))
              /\ isLatestVersion(currentDocument) => Outcome = "Latest"
              /\ ~isLatestVersion(currentDocument) =>
                    /\ Outcome = "Outdated"
                    /\ display.latest =
                          getLatestDocumentVersion(documents[currentDocument].documentId)
        /\ (documents = <<ExampleA, ExampleB>>) =>
              /\ (urlId = "A") =>
                    Outcome = "Outdated" /\ currentDocument = 1 /\ display.latest = 2
              /\ (urlId = "B") => Outcome = "Latest" /\ currentDocument = 2
              /\ (urlId = "Z") => Outcome = "NotFound"

\* the page has resolved id A against [A 1.0.0, B 2.0.0] to Outdated(A, B)
C2_Witness ==
    /\ call.name = "validateDocument"
    /\ documents = <<ExampleA, ExampleB>>
    /\ urlId = "A"
    /\ Outcome = "Outdated"
    /\ display.latest = 2

\* C3: in a lineage with a unique maximal record under the order (version,
\* then date), isLatestVersion returns true for that record and false for
\* every record of the lineage that is strictly smaller.
C3_TrueForUniqueMaximum ==
    (call.name = "isLatestVersion") =>
        \A m \in Lineage(documents[call.arg].documentId) :
            UniqueMaximum(m, Lineage(documents[call.arg].documentId)) =>
                /\ (call.arg = m) => call.result = TRUE
                /\ StrictlySmaller(call.arg, m) => call.result = FALSE

\* C4: when records of a lineage have versions that compare equal to the
\* returned one, getLatestDocumentVersion returns the one with the later
\* date, and the date decides only among equal versions: no record of the
\* lineage has a higher version than the returned one.
C4_LaterDateWinsTie ==
    (call.name = "getLatestDocumentVersion" /\ call.result # 0) =>
        \A i \in Lineage(call.arg) :
            /\ compareVersions(VersionOf(call.result), VersionOf(i)) >= 0
            /\ (compareVersions(VersionOf(call.result), VersionOf(i)) = 0) =>
                  ~DateEarlier(documents[call.result].date, documents[i].date)

\* C7 as stated: findDocumentByValidationId returns the first record whose
\* validationId equals id, and null when no record matches or when id is
\* null or the empty string.
C7_NullForEmptyId ==
    (call.name = "findDocumentByValidationId") =>
        /\ (Matches(call.arg) = {}) => call.result = 0
        /\ (Matches(call.arg) # {}) => call.result = Least(Matches(call.arg))
        /\ Falsy(call.arg) => call.result = 0

\* C7 amended: findDocumentByValidationId returns the first record in
\* registry order whose validationId equals id, whatever id is, and null
\* exactly when no record's validationId equals id.
C7_FirstMatchOrNull ==
    (call.name = "findDocumentByValidationId") =>
        /\ (Matches(call.arg) = {}) <=> (call.result = 0)
        /\ (Matches(call.arg) # {}) => call.result = Least(Matches(call.arg))

\* two records carry the id asked for and the first of them has been returned
C7_Witness ==
    /\ call.name = "findDocumentByValidationId"
    /\ Cardinality(Matches(call.arg)) >= 2
    /\ call.result = Least(Matches(call.arg))
    /\ call.result < Len(documents)

\* C9: whatever calls are made, this.documents keeps the records of the
\* loaded array in the loaded order, and validateDocument run again with the
\* id it was last run with shows the same state with the same records.
C9_ReadOnlyIdempotent ==
    /\ [](documents = response.body)
    /\ [][(call'.name = "validateDocument" /\ display.status # "loading"
             /\ call'.arg = validationId)
          => (display' = display /\ currentDocument' = currentDocument)]_vars

\* a lineage whose array order is not its sorted order has been sorted by a
\* resolution that ended Outdated
C9_Witness ==
    /\ call.name = "validateDocument"
    /\ Outcome = "Outdated"
    /\ display.latest > currentDocument
    /\ documents = response.body

\* C10: validateDocument runs only with this.documents holding the whole
\* array that was loaded; when the fetch fails, the response is not ok or the
\* JSON is no array, this.documents stays empty, validateDocument never runs
\* and init() ends in the error state; until the load has completed
\* this.documents is empty.
C10_LoadBeforeResolve ==
    /\ (call.name = "validateDocument") =>
          (response.kind = "array" /\ documents = response.body)
    /\ (response.kind # "array") =>
          /\ documents = <<>>
          /\ call.name # "validateDocument"
          /\ (pc = "catch") => thrown # "none"
          /\ (pc = "done") => (Outcome = "Error" /\ thrown # "none")
    /\ (pc \in {"init", "fetch", "json", "catch"}) => documents = <<>>

\* the JSON was no array and the page has ended in the error state
C10_Witness ==
    /\ response.kind = "notArray"
    /\ pc = "done"
    /\ Outcome = "Error"
    /\ thrown = "InvalidFormat"

\* C13: for every record of the loaded set getLatestDocumentVersion of its
\* documentId is non-null (so isLatestVersion never returns false for a
\* missing latest), isLatestVersion is true of the record that
\* getLatestDocumentVersion returns, and isLatestVersion is true of a record
\* that is the only one with its documentId.
C13_RecordIsOwnLatest ==
    /\ (call.name = "getLatestDocumentVersion" /\ Lineage(call.arg) # {}) =>
          /\ call.result # 0
          /\ isLatestVersion(call.result)
    /\ (call.name = "isLatestVersion") =>
          /\ getLatestDocumentVersion(documents[call.arg].documentId) # 0
          /\ (Lineage(documents[call.arg].documentId) = {call.arg}) =>
                call.result = TRUE
          /\ \E i \in Lineage(documents[call.arg].documentId) : isLatestVersion(i)

\* C14: when validateDocument shows the not-latest state for the found
\* record, the latest document handed to showInvalidState is non-null, has
\* the documentId of the found record, is another record, and is strictly
\* newer (higher version, or equal version and strictly later date).
C14_SupersededByNewerRecord ==
    (call.name = "validateDocument" /\ Outcome = "Outdated") =>
        /\ display.latest # 0
        /\ currentDocument # 0
        /\ documents[display.latest].documentId = documents[currentDocument].documentId
        /\ display.latest # currentDocument
        /\ StrictlySmaller(currentDocument, display.latest)

\* the resolver methods that have been invoked since the page was opened
ResolverInvocations ==
    IF call.name = "validateDocument" THEN Range(call.invoked)
    ELSE {call.name} \cap {"findDocumentByValidationId", "isLatestVersion",
                           "getLatestDocumentVersion"}

\* C11 as stated: when the query id is absent or empty the page load ends in
\* the "no id" state, and no lookup or version resolution is invoked.
C11_NoIdEndsInNoId ==
    Falsy(urlId) =>
        /\ ResolverInvocations = {}
        /\ (pc = "done") => Outcome = "NoId"

\* C11 amended: when the query id is absent or empty no lookup or version
\* resolution is invoked during the page load; the page load ends in the
\* "no id" state when documents.json has loaded as an array, and in the
\* error state when the load has failed.
C11_NoIdAfterLoadOrError ==
    Falsy(urlId) =>
        /\ ResolverInvocations = {}
        /\ validationId = Null
        /\ currentDocument = 0
        /\ (pc = "done" /\ response.kind = "array") =>
              (Outcome = "NoId" /\ call.name = "validateDocument")
        /\ (pc = "done" /\ response.kind # "array") => Outcome = "Error"

\* the id parameter is empty, the registry holds a record whose validationId
\* is empty too, and the page has ended in the "no id" state without a lookup
C11_Witness ==
    /\ urlId = ""
    /\ Matches("") # {}
    /\ pc = "done"
    /\ Outcome = "NoId"
    /\ call.name = "validateDocument"
    /\ call.invoked = <<>>

----------------------------------------------------------------------------
(* Reference notions the claims about compareVersions are stated in *)

IsDigitString(seg) == seg # <<>> /\ \A i \in 1..Len(seg) : seg[i] \in Digits

\* every dot-separated segment is a non-empty string of digits
WellFormed(v) == \A seg \in Range(Split(v)) : IsDigitString(seg)

\* no dot-separated segment is read as a number by Number()
NothingNumeric(v) == \A seg \in Range(Split(v)) : ToNumber(seg).nan

\* the integer a segment stands for, a missing or non-numeric one standing for 0
SegmentValue(seg) == IF IsDigitString(seg) THEN DecimalValue(seg, 0) ELSE 0

SegmentValues(v) ==
    Once(Split(v), LAMBDA segs : [i \in 1..Len(segs) |-> SegmentValue(segs[i])])

Padded(vals, i) == IF i <= Len(vals) THEN vals[i] ELSE 0

\* the sign of a_i - b_i at the first index where the zero-padded sequences differ
SignOfFirstDifferenceIn(a, b) ==
    Once({i \in 1..Max(Len(a), Len(b)) : Padded(a, i) # Padded(b, i)}, LAMBDA diff :
        IF diff = {} THEN 0
        ELSE Once(CHOOSE k \in diff : \A m \in diff : k <= m,
                  LAMBDA i : Sign(Padded(a, i) - Padded(b, i))))

SignOfFirstDifference(v, w) ==
    Once(SegmentValues(v), LAMBDA a :
    Once(SegmentValues(w), LAMBDA b : SignOfFirstDifferenceIn(a, b)))

RECURSIVE ZeroSegments(_)
ZeroSegments(k) == IF k = 0 THEN <<>> ELSE <<".", "0">> \o ZeroSegments(k - 1)

Compared == call.name = "compareVersions"

\* C5: compareVersions returns -1, 0 or 1, and for versions made of integer
\* segments the result is the sign of a_i - b_i at the first index where the
\* zero-padded segment sequences differ, the segments being compared as
\* numbers, and 0 when there is no such index.
C5_SignOfFirstDifference ==
    Compared =>
        /\ call.result \in {-1, 0, 1}
        /\ (WellFormed(version1) /\ WellFormed(version2)) =>
               call.result = SignOfFirstDifference(version1, version2)

\* compareVersions("0.2", "0.10") has returned -1: numeric, not lexicographic
C5_Witness ==
    /\ Compared
    /\ version1 = <<"0", ".", "2">>
    /\ version2 = <<"0", ".", "1", "0">>
    /\ call.result = -1

\* C6: a version compares equal to itself with zero segments appended, in
\* either argument order, and appending zero segments to either argument
\* does not change the result of comparing it with any other version.
C6_TrailingZeroEquivalence ==
    Compared =>
        \A k \in 1..MaxZeroSegs :
            /\ (version2 = version1 \o ZeroSegments(k)) => call.result = 0
            /\ (version1 = version2 \o ZeroSegments(k)) => call.result = 0
            /\ compareVersions(version1 \o ZeroSegments(k), version2) = call.result
            /\ compareVersions(version1, version2 \o ZeroSegments(k)) = call.result

\* compareVersions("2", "2.0") has returned 0
C6_Witness ==
    /\ Compared
    /\ version1 = <<"2">>
    /\ version2 = <<"2", ".", "0">>
    /\ call.result = 0

\* C8: for every pair of version strings compareVersions returns a result
\* (no error), and the result is the one obtained with every missing, empty
\* or non-numeric segment standing for 0; in particular two strings without
\* any numeric segment compare equal.
C8_MalformedSegmentsAreZero ==
    Compared =>
        /\ call.result = SignOfFirstDifference(version1, version2)
        /\ (NothingNumeric(version1) /\ NothingNumeric(version2)) => call.result = 0

\* compareVersions("a.2", "0") has returned 1: "a" counted as 0, then 2 > 0
C8_Witness ==
    /\ Compared
    /\ version1 = <<"a", ".", "2">>
    /\ version2 = <<"0">>
    /\ call.result = 1

\* the version strings a third version is drawn from: at most MaxThirdSegs
\* segments out of "0", "2", "10", "a"
ThirdVersions ==
    {Join(segs) : segs \in UNION {[1..n -> SegmentPool \ {<<>>, <<"2", "a">>}] :
                                      n \in 1..MaxThirdSegs}}

\* C12: compareVersions is a total preorder: a version compares equal to
\* itself, compareVersions(a, b) = -compareVersions(b, a), and a <= b and
\* b <= c give a <= c, the third version standing after the two compared or
\* between them; calling it again gives the same result.
C12_TotalPreorder ==
    Compared =>
        /\ call.result \in {-1, 0, 1}
        /\ compareVersions(version1, version2) = call.result
        /\ compareVersions(version1, version1) = 0
        /\ compareVersions(version2, version1) = -call.result
        /\ (call.result <= 0) =>
              \A c \in ThirdVersions :
                  (compareVersions(version2, c) <= 0) => (compareVersions(version1, c) <= 0)
        /\ (call.result > 0) =>
              \A c \in ThirdVersions :
                  (compareVersions(version1, c) <= 0) => (compareVersions(c, version2) > 0)

\* "0.10" has compared below "2.a", with "2" a third version that "2.a" is
\* not above and that "0.10" is below
C12_Witness ==
    /\ Compared
    /\ version1 = <<"0", ".", "1", "0">>
    /\ version2 = <<"2", ".", "a">>
    /\ call.result = -1
    /\ <<"2">> \in ThirdVersions
    /\ compareVersions(version2, <<"2">>) = 0
    /\ compareVersions(version1, <<"2">>) = -1

----------------------------------------------------------------------------
(* Notions the claim about the index page is stated in *)

\* discoverValidationTypes has been called
DiscoveryRan == discovery # "none"

ManifestMissing == manifest.kind = "notOk" /\ manifest.status = 404

\* the known types whose HEAD request has succeeded
ProbedTypes == {knownTypes[i] : i \in {j \in 1..Len(knownTypes) : probe[j] = "ok"}}

\* C15: a manifest that loads as an array becomes validationTypes; discovery
\* runs when the manifest fetch returns 404 or fails with a fetch error; any
\* other non-ok status and a manifest that is no array throw without
\* discovery; discovery sets validationTypes to a non-empty list of known
\* types whose probe succeeded or throws 'No validation types found';
\* renderValidationTypes is reached only with a loaded manifest or a
\* non-empty discovered list, and every failure ends in showError.
C15_ManifestOrDiscovery ==
    /\ (indexPc \in {"render", "done"} /\ manifest.kind = "array") =>
          (validationTypes = manifest.body /\ ~DiscoveryRan)
    /\ (indexPc = "done" /\ (ManifestMissing \/ manifest.kind = "rejects")) =>
          DiscoveryRan
    /\ ((manifest.kind = "notOk" /\ ~ManifestMissing) \/ manifest.kind = "notArray") =>
          /\ ~DiscoveryRan
          /\ (indexPc = "done") => indexPage = "error"
    /\ (DiscoveryRan /\ indexPc \in {"render", "done"}) =>
          \/ /\ validationTypes # <<>>
             /\ Range(validationTypes) \subseteq ProbedTypes
             /\ indexError = "none"
          \/ /\ validationTypes = <<>>
             /\ indexError = NoTypesFound
    /\ (indexPc = "render") =>
          \/ (manifest.kind = "array" /\ validationTypes = manifest.body)
          \/ (DiscoveryRan /\ validationTypes # <<>>)
    /\ (indexPc = "done" /\ indexError # "none") => indexPage = "error"

====
